---- MODULE Spec2Model ----
(***************************************************************************)
(* GoBuff: a reusable byte Buffer (buffer.go) and a size-class bucketed    *)
(* BufferPool (pool.go).                                                   *)
(*                                                                         *)
(* A Buffer value is the record [mem, len, cap, r]:                        *)
(*   cap : cap(b.buf), the size of the backing array                       *)
(*   len : len(b.buf)                                                      *)
(*   r   : b.r, the read cursor                                            *)
(*   mem : the bytes of the backing array from index 0; the array cells    *)
(*         past Len(mem) still hold the zero that make() put there         *)
(***************************************************************************)
EXTENDS Integers, Sequences, FiniteSets, TLC

\* ------------------------------------------------------------------------
\* Bounds of the model
\* ------------------------------------------------------------------------
MaxTotal == 5      \* bytes handed to the standalone buffer over a run
MaxArg == 2        \* largest n / len(p) / len(dst) of a standalone buffer call
MaxChunk == 2      \* largest chunk an io.Reader delivers per Read call

\* ------------------------------------------------------------------------
\* Helpers on integers and sequences
\* ------------------------------------------------------------------------
Min(a, b) == IF a < b THEN a ELSE b

RECURSIVE BitOr(_, _)
\* a | b on non-negative integers
BitOr(a, b) ==
    IF a = 0 THEN b
    ELSE IF b = 0 THEN a
    ELSE (IF (a % 2 = 1) \/ (b % 2 = 1) THEN 1 ELSE 0) + 2 * BitOr(a \div 2, b \div 2)

RECURSIVE Pow2(_)
Pow2(k) == IF k = 0 THEN 1 ELSE 2 * Pow2(k - 1)

\* n >> k on non-negative integers
Shr(n, k) == n \div Pow2(k)

\* k zero bytes
Zeros(k) == [i \in 1..k |-> 0]

\* the bytes number from+1 .. from+k of the input stream (byte k of the stream is k)
Fresh(from, k) == [i \in 1..k |-> from + i]

\* ------------------------------------------------------------------------
\* buffer.go
\* ------------------------------------------------------------------------
\* nextPowerOfTwo without the n-- step: an exact power of two is doubled
nextPowerOfTwoNoDec(n) ==
    IF n <= 0 THEN 0
    ELSE LET n0 == n
             n1 == BitOr(n0, Shr(n0, 1))
             n2 == BitOr(n1, Shr(n1, 2))
             n3 == BitOr(n2, Shr(n2, 4))
             n4 == BitOr(n3, Shr(n3, 8))
             n5 == BitOr(n4, Shr(n4, 16))
         IN  IF n5 < 0 THEN 0 ELSE n5 + 1

nextPowerOfTwo(n) ==
    IF n <= 0 THEN 0
    ELSE LET n0 == n - 1
             n1 == BitOr(n0, Shr(n0, 1))
             n2 == BitOr(n1, Shr(n1, 2))
             n3 == BitOr(n2, Shr(n2, 4))
             n4 == BitOr(n3, Shr(n3, 8))
             n5 == BitOr(n4, Shr(n4, 16))
         IN  IF n5 < 0 THEN 0 ELSE n5 + 1

NewBuffer(initialCap) ==
    [mem |-> << >>, len |-> 0, cap |-> IF initialCap < 0 THEN 0 ELSE initialCap, r |-> 0]

Bytes(b) == SubSeq(b.mem, b.r + 1, b.len)

BufLen(b) == b.len - b.r

\* Reset releasing the array: b.buf = nil
ResetDropsArray(b) == [mem |-> << >>, len |-> 0, cap |-> 0, r |-> 0]

Reset(b) == [b EXCEPT !.len = 0, !.r = 0]

\* collapse of a drained buffer: if b.r >= len(b.buf) { b.Reset() }
Collapse(b) == IF b.r >= b.len THEN Reset(b) ELSE b

\* grow sizing the new array for n alone, forgetting the unread bytes
growForgetsUnread(b, n) ==
    IF n <= 0 THEN b
    ELSE LET b1 == Collapse(b)
             unread == b1.len - b1.r
         IN  IF b1.cap - b1.len >= n THEN b1
             ELSE IF b1.r > 0 /\ unread + n <= b1.cap
                  THEN [b1 EXCEPT !.mem = SubSeq(b1.mem, b1.r + 1, b1.len)
                                           \o SubSeq(b1.mem, unread + 1, Len(b1.mem)),
                                  !.len = unread,
                                  !.r = 0]
                  ELSE [mem |-> SubSeq(b1.mem, b1.r + 1, b1.len),
                        len |-> unread,
                        cap |-> nextPowerOfTwo(n),
                        r |-> 0]

\* grow compacting without the copy: the cursor is reset, the bytes stay put
growNoCopy(b, n) ==
    IF n <= 0 THEN b
    ELSE LET b1 == Collapse(b)
             unread == b1.len - b1.r
         IN  IF b1.cap - b1.len >= n THEN b1
             ELSE IF b1.r > 0 /\ unread + n <= b1.cap
                  THEN [b1 EXCEPT !.len = unread, !.r = 0]
                  ELSE [mem |-> SubSeq(b1.mem, b1.r + 1, b1.len),
                        len |-> unread,
                        cap |-> nextPowerOfTwo(unread + n),
                        r |-> 0]

\* grow without the compaction step: it reallocates whenever the tail is short
growNoCompact(b, n) ==
    IF n <= 0 THEN b
    ELSE LET b1 == Collapse(b)
             unread == b1.len - b1.r
         IN  IF b1.cap - b1.len >= n THEN b1
             ELSE [mem |-> SubSeq(b1.mem, b1.r + 1, b1.len),
                   len |-> unread,
                   cap |-> nextPowerOfTwo(unread + n),
                   r |-> 0]

grow(b, n) ==
    IF n <= 0 THEN b
    ELSE LET b1 == Collapse(b)
             unread == b1.len - b1.r
         IN  IF b1.cap - b1.len >= n THEN b1
             ELSE IF b1.r > 0 /\ unread + n <= b1.cap
                  THEN [b1 EXCEPT !.mem = SubSeq(b1.mem, b1.r + 1, b1.len)
                                           \o SubSeq(b1.mem, unread + 1, Len(b1.mem)),
                                  !.len = unread,
                                  !.r = 0]
                  ELSE [mem |-> SubSeq(b1.mem, b1.r + 1, b1.len),
                        len |-> unread,
                        cap |-> nextPowerOfTwo(unread + n),
                        r |-> 0]

\* b.buf = append(b.buf, p...): in place when the capacity suffices, else the
\* runtime moves the slice to a larger array
append(b, p) ==
    IF b.len + Len(p) <= b.cap
    THEN [b EXCEPT !.mem = SubSeq(b.mem, 1, b.len) \o p
                           \o SubSeq(b.mem, b.len + Len(p) + 1, Len(b.mem)),
                   !.len = b.len + Len(p)]
    ELSE [b EXCEPT !.mem = SubSeq(b.mem, 1, b.len) \o p,
                   !.len = b.len + Len(p),
                   !.cap = b.len + Len(p)]

Grow(b, n) == IF n > 0 THEN grow(b, n) ELSE b

\* Reserve: the buffer after the call; the returned slot is b.buf[prev:prev+n]
Reserve(b, n) ==
    IF n <= 0 THEN b
    ELSE LET b1 == grow(b, n)
             prev == b1.len
         IN  [b1 EXCEPT !.len = prev + n,
                        !.mem = IF Len(b1.mem) >= prev + n THEN b1.mem
                                ELSE b1.mem \o Zeros(prev + n - Len(b1.mem))]

\* copy(slot, data) into the slot Reserve(n) returned, Len(data) <= n
FillSlot(b, n, data) ==
    LET prev == b.len - n
    IN  [b EXCEPT !.mem = SubSeq(b.mem, 1, prev) \o data
                          \o SubSeq(b.mem, prev + Len(data) + 1, Len(b.mem))]

Write(b, p) ==
    IF Len(p) = 0 THEN b
    ELSE append(grow(Collapse(b), Len(p)), p)

WriteByte(b, v) == append(grow(Collapse(b), 1), <<v>>)

WriteString(b, s) ==
    IF Len(s) = 0 THEN b
    ELSE append(grow(Collapse(b), Len(s)), s)

\* Read that reports (0, nil) on a drained buffer
ReadNoEOF(b, k) ==
    IF k = 0 THEN [b |-> b, n |-> 0, data |-> << >>, eof |-> FALSE]
    ELSE IF b.r >= b.len THEN [b |-> Reset(b), n |-> 0, data |-> << >>, eof |-> FALSE]
    ELSE LET n == Min(k, b.len - b.r)
             b1 == [b EXCEPT !.r = b.r + n]
         IN  [b |-> Collapse(b1), n |-> n,
              data |-> SubSeq(b.mem, b.r + 1, b.r + n), eof |-> FALSE]

\* Read without the Reset that follows the copy of the last unread byte
ReadLeavesDrained(b, k) ==
    IF k = 0 THEN [b |-> b, n |-> 0, data |-> << >>, eof |-> FALSE]
    ELSE IF b.r >= b.len THEN [b |-> Reset(b), n |-> 0, data |-> << >>, eof |-> TRUE]
    ELSE LET n == Min(k, b.len - b.r)
         IN  [b |-> [b EXCEPT !.r = b.r + n], n |-> n,
              data |-> SubSeq(b.mem, b.r + 1, b.r + n), eof |-> FALSE]

\* Read into a destination of length k: the buffer after the call, the count,
\* the bytes copied and whether io.EOF is returned
Read(b, k) ==
    IF k = 0 THEN [b |-> b, n |-> 0, data |-> << >>, eof |-> FALSE]
    ELSE IF b.r >= b.len THEN [b |-> Reset(b), n |-> 0, data |-> << >>, eof |-> TRUE]
    ELSE LET n == Min(k, b.len - b.r)
             b1 == [b EXCEPT !.r = b.r + n]
         IN  [b |-> Collapse(b1), n |-> n,
              data |-> SubSeq(b.mem, b.r + 1, b.r + n), eof |-> FALSE]

\* WriteTo passing on the sink's error as it is, a short count included
WriteToHidesShort(b, m, werr) ==
    IF b.r >= b.len THEN [b |-> Reset(b), n |-> 0, err |-> "nil", called |-> FALSE]
    ELSE LET p == Bytes(b)
             b1 == IF m > 0 THEN Collapse([b EXCEPT !.r = b.r + m]) ELSE b
         IN  [b |-> b1, n |-> m, err |-> werr, called |-> TRUE]

\* WriteTo a sink whose Write returns (m, werr) for the slice p it is offered
WriteTo(b, m, werr) ==
    IF b.r >= b.len THEN [b |-> Reset(b), n |-> 0, err |-> "nil", called |-> FALSE]
    ELSE LET p == Bytes(b)
             b1 == IF m > 0 THEN Collapse([b EXCEPT !.r = b.r + m]) ELSE b
         IN  [b |-> b1, n |-> m,
              err |-> IF werr = "nil" /\ m # Len(p) THEN "ErrShortWrite" ELSE werr,
              called |-> TRUE]

minRead == 512

RECURSIVE ReadFromLoop(_, _, _, _)
\* the for loop of ReadFrom; script is what the source's successive Read calls
\* return: <<[n, err], ...>>, n capped by the room offered; from numbers the
\* source's bytes
ReadFromLoop(b, script, total, from) ==
    LET b1 == IF b.len = b.cap THEN grow(b, minRead) ELSE b
        start == b1.len
        n == Min(Head(script).n, b1.cap - start)
        b2 == IF n > 0
              THEN [b1 EXCEPT !.mem = SubSeq(b1.mem, 1, start) \o Fresh(from, n)
                                      \o SubSeq(b1.mem, start + n + 1, Len(b1.mem)),
                              !.len = start + n]
              ELSE b1
        total2 == IF n > 0 THEN total + n ELSE total
        err == Head(script).err
    IN  IF err # "nil"
        THEN [b |-> b2, n |-> total2, err |-> IF err = "EOF" THEN "nil" ELSE err]
        ELSE ReadFromLoop(b2, Tail(script), total2, from + n)

\* ReadFrom returning a zero count with the source's error
ReadFromDropsCount(b, script, from) ==
    LET res == ReadFromLoop(Collapse(b), script, 0, from)
    IN  [res EXCEPT !.n = IF res.err # "nil" THEN 0 ELSE res.n]

ReadFrom(b, script, from) == ReadFromLoop(Collapse(b), script, 0, from)

\* ------------------------------------------------------------------------
\* pool.go: construction and the pure helpers
\* ------------------------------------------------------------------------
defaultBucketSizes == <<64, 128, 256, 512, 1024, 2048, 4096, 8192, 16384, 32768, 65536>>

\* 0.95 as the fraction percentile.num / percentile.den
defaultPercentile == [num |-> 19, den |-> 20]

defaultCalibrateThreshold == 42000

defaultObserveEvery == 4096

Range(s) == {s[i] : i \in 1..Len(s)}

SetMin(S) == CHOOSE x \in S : \A y \in S : x <= y

RECURSIVE SortedSeq(_)
\* the elements of a finite set of integers in ascending order
SortedSeq(S) ==
    IF S = {} THEN << >>
    ELSE <<SetMin(S)>> \o SortedSeq(S \ {SetMin(S)})

\* keeps the positive values, sorts them and drops duplicates
normalizeSizes(s) == SortedSeq({v \in Range(s) : v > 0})

minInt(a, b) == IF a < b THEN a ELSE b

\* chooseCap returning the target itself when it exceeds every class
chooseCapUnclamped(sizes, target) ==
    IF target <= 0 THEN sizes[1]
    ELSE IF \E i \in 1..Len(sizes) : target <= sizes[i]
         THEN sizes[CHOOSE i \in 1..Len(sizes) :
                        /\ target <= sizes[i]
                        /\ \A j \in 1..(i - 1) : ~(target <= sizes[j])]
         ELSE target

chooseCap(sizes, target) ==
    IF target <= 0 THEN sizes[1]
    ELSE IF \E i \in 1..Len(sizes) : target <= sizes[i]
         THEN sizes[CHOOSE i \in 1..Len(sizes) :
                        /\ target <= sizes[i]
                        /\ \A j \in 1..(i - 1) : ~(target <= sizes[j])]
         ELSE sizes[Len(sizes)]

\* bucketIndex with the comparison reversed (size >= s)
bucketIndexReversed(sizes, size) ==
    IF size <= 0 THEN 1
    ELSE IF \E i \in 1..Len(sizes) : size >= sizes[i]
         THEN CHOOSE i \in 1..Len(sizes) :
                  /\ size >= sizes[i]
                  /\ \A j \in 1..(i - 1) : ~(size >= sizes[j])
         ELSE Len(sizes)

\* index (from 1) of the first class with size <= sizes[i], the last class if none
bucketIndex(sizes, size) ==
    IF size <= 0 THEN 1
    ELSE IF \E i \in 1..Len(sizes) : size <= sizes[i]
         THEN CHOOSE i \in 1..Len(sizes) :
                  /\ size <= sizes[i]
                  /\ \A j \in 1..(i - 1) : ~(size <= sizes[j])
         ELSE Len(sizes)

\* the immutable fields of the pool NewBufferPoolWithOptions builds, and the
\* initial default capacity
NewBufferPoolWithOptions(opts) ==
    LET norm == normalizeSizes(opts.BucketSizes)
        sizes == IF Len(norm) = 0 THEN defaultBucketSizes ELSE norm
    IN  [sizes        |-> sizes,
         debugLeaks   |-> opts.DebugLeakDetection,
         observeEvery |-> IF opts.ObserveEvery > 0 THEN opts.ObserveEvery
                          ELSE defaultObserveEvery,
         percentile   |-> IF opts.Percentile.num > 0
                             /\ opts.Percentile.num <= opts.Percentile.den
                          THEN opts.Percentile ELSE defaultPercentile,
         calibrateThr |-> IF opts.CalibrateThreshold > 0 THEN opts.CalibrateThreshold
                          ELSE defaultCalibrateThreshold,
         smallLimit   |-> IF opts.SmallLimit > 0 THEN opts.SmallLimit
                          ELSE minInt(256, sizes[1]),
         metrics      |-> opts.Metrics,
         defaultCap   |-> chooseCap(sizes, opts.InitialCap)]

\* ------------------------------------------------------------------------
\* A standalone Buffer driven by one caller
\* ------------------------------------------------------------------------
VARIABLES
    buf,        \* the Buffer
    fed,        \* number of bytes handed to the buffer so far (byte k is k)
    written,    \* bytes put into the buffer since construction / the last Reset
    readOut,    \* bytes taken out of the buffer since construction / the last Reset
    tracked,    \* FALSE once Reserve exposed a slot that the caller did not fill
    ret         \* what the last call returned, where the run records it

bvars == <<buf, fed, written, readOut, tracked, ret>>

\* nothing recorded: the last call was none of Read, WriteTo, ReadFrom
NoRet == [op |-> "none", n |-> 0, err |-> "nil", sink |-> FALSE]

InitCaps == {-1, 0, 3, 4}

\* what the successive Read calls of a source return, the last one with an error
Scripts ==
    LET Chunk(e) == [n : 0..MaxChunk, err : e]
        Last == Chunk({"EOF", "ErrSrc"})
        Mid == Chunk({"nil"})
    IN  {<<l>> : l \in Last}
        \cup {<<m, l>> : m \in Mid, l \in Last}

\* sources that would deliver more after the call that fails or ends
SourceScripts ==
    LET Chunk(e) == [n : 0..MaxChunk, err : e]
        Last == Chunk({"EOF", "ErrSrc"})
    IN  Scripts \cup {<<l, [n |-> 1, err |-> "EOF"]>> : l \in Last}

RECURSIVE ScriptBytes(_)
ScriptBytes(script) ==
    IF script = << >> THEN 0 ELSE Head(script).n + ScriptBytes(Tail(script))

\* ------------------------------------------------------------------------
\* A BufferPool shared by concurrent callers
\* ------------------------------------------------------------------------
MaxCalls == 3      \* Get, GetSized, Borrow, Calibrate and NewBuffer calls over a run

Threads == {1, 2}  \* the concurrent callers
BufIds == {1, 2}   \* the Buffer instances alive at a time
None == 0          \* the nil *Buffer
NoBuf == [mem |-> << >>, len |-> 0, cap |-> -1, r |-> 0]   \* an unallocated instance

\* the PoolOptions the pools of the model are built from
OptionSet ==
    { [BucketSizes |-> <<4, 2, 8, 4, 0>>, InitialCap |-> 3,
       DebugLeakDetection |-> FALSE, ObserveEvery |-> 2, SmallLimit |-> 0,
       Percentile |-> [num |-> 1, den |-> 2], CalibrateThreshold |-> 2,
       Metrics |-> FALSE],
      [BucketSizes |-> <<3, 6>>, InitialCap |-> 0,
       DebugLeakDetection |-> TRUE, ObserveEvery |-> 1, SmallLimit |-> 4,
       Percentile |-> [num |-> 1, den |-> 1], CalibrateThreshold |-> 1,
       Metrics |-> TRUE],
      [BucketSizes |-> <<5, 2>>, InitialCap |-> 5,
       DebugLeakDetection |-> FALSE, ObserveEvery |-> 1, SmallLimit |-> 0,
       Percentile |-> [num |-> 1, den |-> 3], CalibrateThreshold |-> 2,
       Metrics |-> TRUE] }

SizedArgs == {-1, 3, 9}         \* n of GetSized(n) and Borrow(n)
CalArgs == {0, 3, 9}            \* observed of Calibrate(observed)
ForeignCaps == {0, 5}           \* initialCap of a caller's own NewBuffer
UseGrowArgs == {3, 5}           \* n of a Grow on a checked-out Buffer

VARIABLES
    pool,          \* the immutable fields of the BufferPool
    defaultCap,    \* p.defaultCap
    observed,      \* p.observed
    bucketHits,    \* p.bucketHits
    leaks,         \* p.leaks
    gets,          \* p.gets
    puts,          \* p.puts
    allocs,        \* p.allocs
    calibrations,  \* p.calibrations
    buckets,       \* p.buckets: per class, the set of Buffers the sync.Pool stores
    smallPool,     \* p.smallPool: the set of Buffers the sync.Pool stores
    heap,          \* the Buffer instances, by identity
    finalizer,     \* whether a leak finalizer is set on the instance
    hold,          \* per caller, the Buffer it has checked out (None if none)
    pc,            \* per caller, where it is inside a pool call
    loc,           \* per caller, the locals of the call in progress
    calls          \* bookkeeping: calls made, metrics callbacks run, last Calibrate

pvars == <<pool, defaultCap, observed, bucketHits, leaks, gets, puts, allocs,
           calibrations, buckets, smallPool, heap, finalizer, hold, pc, loc, calls>>

vars == <<bvars, pvars>>

IdleLoc == [op |-> "none", ret |-> "none", n |-> 0, idx |-> 0, size |-> 0, i |-> 0,
            counts |-> << >>, total |-> 0, pick |-> 0, cal |-> 0]

\* the locals of a caller that holds the release function of a Borrow
BorrowedLoc == [IdleLoc EXCEPT !.op = "Borrow"]

\* passes: recalibration passes started; out: the Buffers handed out by the
\* pool and not given to Put since; leaked: how many of those were reclaimed;
\* samples: the Adds made to hit counters; summed: what the passes have read
\* from hit counters; sized: the Puts of a Buffer with capacity > 0
InitCalls == [made |-> 0, getsDone |-> 0, putsDone |-> 0, foreign |-> 0,
              calibrates |-> 0, metrics |-> 0, lastCal |-> 0,
              passes |-> 0, out |-> {}, leaked |-> 0,
              samples |-> 0, summed |-> 0, sized |-> 0]

InitPoolWith(opts) ==
    /\ pool = NewBufferPoolWithOptions(opts)
    /\ defaultCap = pool.defaultCap
    /\ observed = 0
    /\ bucketHits = [i \in 1..Len(pool.sizes) |-> 0]
    /\ leaks = 0
    /\ gets = 0
    /\ puts = 0
    /\ allocs = 0
    /\ calibrations = 0
    /\ buckets = [i \in 1..Len(pool.sizes) |-> {}]
    /\ smallPool = {}
    /\ heap = [b \in BufIds |-> NoBuf]
    /\ finalizer = [b \in BufIds |-> FALSE]
    /\ hold = [t \in Threads |-> None]
    /\ pc = [t \in Threads |-> "idle"]
    /\ loc = [t \in Threads |-> IdleLoc]
    /\ calls = InitCalls

Pooled == smallPool \cup UNION {buckets[i] : i \in 1..Len(buckets)}

Held == {hold[t] : t \in Threads} \ {None}

FreeIds == {b \in BufIds : heap[b] = NoBuf}

Idle(t) == pc[t] = "idle"

\* a sub-pool that keeps the instance it hands out
PoolTakeKeeps(S, b) == S

\* sync.Pool.Get taking a stored instance: it leaves the pool
PoolTake(S, b) == S \ {b}

\* sync.Pool.Put
PoolPut(S, b) == S \cup {b}

\* --- Get / GetSized / Borrow ---------------------------------------------
Get(t) ==
    /\ Idle(t) /\ hold[t] = None /\ calls.made < MaxCalls
    /\ gets' = gets + 1
    /\ calls' = [calls EXCEPT !.made = @ + 1]
    /\ pc' = [pc EXCEPT ![t] = "get_load"]
    /\ loc' = [loc EXCEPT ![t] = [IdleLoc EXCEPT !.op = "Get"]]
    /\ UNCHANGED <<bvars, pool, defaultCap, observed, bucketHits, leaks, puts, allocs,
                   calibrations, buckets, smallPool, heap, finalizer, hold>>

\* p.defaultCap.Load(), the argument of getSized
GetLoad(t) ==
    /\ pc[t] = "get_load"
    /\ loc' = [loc EXCEPT ![t].n = defaultCap, ![t].cal = calls.lastCal]
    /\ pc' = [pc EXCEPT ![t] = "getSized"]
    /\ UNCHANGED <<bvars, pool, defaultCap, observed, bucketHits, leaks, gets, puts, allocs,
                   calibrations, buckets, smallPool, heap, finalizer, hold, calls>>

GetSized(t, n) ==
    /\ Idle(t) /\ hold[t] = None /\ calls.made < MaxCalls
    /\ gets' = gets + 1
    /\ calls' = [calls EXCEPT !.made = @ + 1]
    /\ pc' = [pc EXCEPT ![t] = "getSized"]
    /\ loc' = [loc EXCEPT ![t] = [IdleLoc EXCEPT !.op = "GetSized", !.n = n]]
    /\ UNCHANGED <<bvars, pool, defaultCap, observed, bucketHits, leaks, puts, allocs,
                   calibrations, buckets, smallPool, heap, finalizer, hold>>

Borrow(t, n) ==
    /\ Idle(t) /\ hold[t] = None /\ calls.made < MaxCalls
    /\ gets' = gets + 1
    /\ calls' = [calls EXCEPT !.made = @ + 1]
    /\ pc' = [pc EXCEPT ![t] = "getSized"]
    /\ loc' = [loc EXCEPT ![t] = [IdleLoc EXCEPT !.op = "Borrow", !.n = n]]
    /\ UNCHANGED <<bvars, pool, defaultCap, observed, bucketHits, leaks, puts, allocs,
                   calibrations, buckets, smallPool, heap, finalizer, hold>>

\* getSized without the grow of a too small buffer
FitNoGrow(b0, n) == b0

\* the buffer getSized returns once it has drawn b0 from a sub-pool
Fit(b0, n) == IF n > b0.cap THEN grow(b0, n - b0.len) ELSE b0

\* getSized(n): the sub-pool either hands over a stored instance or misses and
\* constructs one (allocs.Add(1), NewBuffer)
getSized(t) ==
    /\ pc[t] = "getSized"
    /\ LET n == IF loc[t].n < 0 THEN 0 ELSE loc[t].n
           small == n <= pool.smallLimit
           idx == bucketIndex(pool.sizes, n)
           stored == IF small THEN smallPool ELSE buckets[idx]
       IN  \/ \E b \in stored :
                /\ heap' = [heap EXCEPT ![b] = Fit(heap[b], n)]
                /\ smallPool' = IF small THEN PoolTake(smallPool, b) ELSE smallPool
                /\ buckets' = IF small THEN buckets
                              ELSE [buckets EXCEPT ![idx] = PoolTake(buckets[idx], b)]
                /\ finalizer' = IF pool.debugLeaks THEN [finalizer EXCEPT ![b] = TRUE]
                                ELSE finalizer
                /\ hold' = [hold EXCEPT ![t] = b]
                /\ calls' = [calls EXCEPT !.getsDone = @ + 1, !.out = @ \cup {b}]
                /\ UNCHANGED allocs
           \/ \E b \in FreeIds :
                /\ b = SetMin(FreeIds)
                /\ allocs' = allocs + 1
                /\ heap' = [heap EXCEPT ![b] =
                              Fit(NewBuffer(IF small THEN pool.smallLimit
                                            ELSE pool.sizes[idx]), n)]
                /\ finalizer' = [finalizer EXCEPT ![b] = pool.debugLeaks]
                /\ hold' = [hold EXCEPT ![t] = b]
                /\ calls' = [calls EXCEPT !.getsDone = @ + 1, !.out = @ \cup {b}]
                /\ UNCHANGED <<smallPool, buckets>>
    /\ pc' = [pc EXCEPT ![t] = "idle"]
    /\ loc' = [loc EXCEPT ![t] = IF loc[t].op = "Borrow" THEN BorrowedLoc ELSE IdleLoc]
    /\ UNCHANGED <<bvars, pool, defaultCap, observed, bucketHits, leaks, gets, puts,
                   calibrations>>

\* --- Put -----------------------------------------------------------------
\* Put counting the nil buffer too
PutEnterCountsNil(t, b) ==
    IF b = None
    THEN /\ puts' = puts + 1
         /\ UNCHANGED <<bvars, pool, defaultCap, observed, bucketHits, leaks, gets, allocs,
                        calibrations, buckets, smallPool, heap, finalizer, hold, pc,
                        loc, calls>>
    ELSE LET size == heap[b].cap
         IN  /\ puts' = puts + 1
             /\ finalizer' = IF pool.debugLeaks THEN [finalizer EXCEPT ![b] = FALSE]
                             ELSE finalizer
             /\ heap' = [heap EXCEPT ![b] = Reset(heap[b])]
             /\ loc' = [loc EXCEPT ![t] = [IdleLoc EXCEPT
                                              !.op = "Put",
                                              !.size = size,
                                              !.idx = bucketIndex(pool.sizes, size)]]
             /\ pc' = [pc EXCEPT ![t] =
                          IF size <= 0 \/ pool.observeEvery <= 0 THEN "put_store"
                          ELSE "obs_hit"]
             /\ calls' = [calls EXCEPT !.out = @ \ {b},
                                       !.sized = IF size > 0 THEN @ + 1 ELSE @]
             /\ UNCHANGED <<bvars, pool, defaultCap, observed, bucketHits, leaks, gets,
                            allocs, calibrations, buckets, smallPool, hold>>

\* Put without b.Reset()
PutEnterNoReset(t, b) ==
    IF b = None
    THEN UNCHANGED vars
    ELSE LET size == heap[b].cap
         IN  /\ puts' = puts + 1
             /\ finalizer' = IF pool.debugLeaks THEN [finalizer EXCEPT ![b] = FALSE]
                             ELSE finalizer
             /\ loc' = [loc EXCEPT ![t] = [IdleLoc EXCEPT
                                              !.op = "Put",
                                              !.size = size,
                                              !.idx = bucketIndex(pool.sizes, size)]]
             /\ pc' = [pc EXCEPT ![t] =
                          IF size <= 0 \/ pool.observeEvery <= 0 THEN "put_store"
                          ELSE "obs_hit"]
             /\ calls' = [calls EXCEPT !.out = @ \ {b},
                                       !.sized = IF size > 0 THEN @ + 1 ELSE @]
             /\ UNCHANGED <<bvars, pool, defaultCap, observed, bucketHits, leaks, gets,
                            allocs, calibrations, buckets, smallPool, hold, heap>>

\* Put without runtime.SetFinalizer(b, nil)
PutEnterKeepsFinalizer(t, b) ==
    IF b = None
    THEN UNCHANGED vars
    ELSE LET size == heap[b].cap
         IN  /\ puts' = puts + 1
             /\ heap' = [heap EXCEPT ![b] = Reset(heap[b])]
             /\ loc' = [loc EXCEPT ![t] = [IdleLoc EXCEPT
                                              !.op = "Put",
                                              !.size = size,
                                              !.idx = bucketIndex(pool.sizes, size)]]
             /\ pc' = [pc EXCEPT ![t] =
                          IF size <= 0 \/ pool.observeEvery <= 0 THEN "put_store"
                          ELSE "obs_hit"]
             /\ calls' = [calls EXCEPT !.out = @ \ {b},
                                       !.sized = IF size > 0 THEN @ + 1 ELSE @]
             /\ UNCHANGED <<bvars, pool, defaultCap, observed, bucketHits, leaks, gets,
                            allocs, calibrations, buckets, smallPool, hold, finalizer>>

\* Put(b) up to the call of observeSize: the nil test, p.puts.Add(1),
\* SetFinalizer(b, nil), b.Reset() and bucketIndex(cap(b.buf)); observeSize
\* returns at once when size <= 0 or observeEvery <= 0
PutEnter(t, b) ==
    IF b = None
    THEN UNCHANGED vars
    ELSE LET size == heap[b].cap
         IN  /\ puts' = puts + 1
             /\ finalizer' = IF pool.debugLeaks THEN [finalizer EXCEPT ![b] = FALSE]
                             ELSE finalizer
             /\ heap' = [heap EXCEPT ![b] = Reset(heap[b])]
             /\ loc' = [loc EXCEPT ![t] = [IdleLoc EXCEPT
                                              !.op = "Put",
                                              !.size = size,
                                              !.idx = bucketIndex(pool.sizes, size)]]
             /\ pc' = [pc EXCEPT ![t] =
                          IF size <= 0 \/ pool.observeEvery <= 0 THEN "put_store"
                          ELSE "obs_hit"]
             /\ calls' = [calls EXCEPT !.out = @ \ {b},
                                       !.sized = IF size > 0 THEN @ + 1 ELSE @]
             /\ UNCHANGED <<bvars, pool, defaultCap, observed, bucketHits, leaks, gets,
                            allocs, calibrations, buckets, smallPool, hold>>

Put(t, b) ==
    /\ Idle(t)
    /\ b \in {None, hold[t]}
    /\ PutEnter(t, b)

\* the release function Borrow returned: p.Put(buf)
Release(t) ==
    /\ Idle(t) /\ loc[t].op = "Borrow" /\ hold[t] # None
    /\ PutEnter(t, hold[t])

\* observeSize counting every sample in the first class
ObserveHitFirstClass(t) ==
    /\ pc[t] = "obs_hit"
    /\ bucketHits' = [bucketHits EXCEPT ![1] = @ + 1]
    /\ calls' = [calls EXCEPT !.samples = @ + 1]
    /\ pc' = [pc EXCEPT ![t] = "obs_total"]
    /\ UNCHANGED <<bvars, pool, defaultCap, observed, leaks, gets, puts, allocs,
                   calibrations, buckets, smallPool, heap, finalizer, hold, loc>>

\* observeSize setting the hit counter to 1: Store(1), not Add(1)
ObserveHitStore(t) ==
    /\ pc[t] = "obs_hit"
    /\ bucketHits' = [bucketHits EXCEPT ![loc[t].idx] = 1]
    /\ calls' = [calls EXCEPT !.samples = @ + 1]
    /\ pc' = [pc EXCEPT ![t] = "obs_total"]
    /\ UNCHANGED <<bvars, pool, defaultCap, observed, leaks, gets, puts, allocs,
                   calibrations, buckets, smallPool, heap, finalizer, hold, loc>>

\* observeSize: p.bucketHits[bucketIdx].Add(1)
ObserveHit(t) ==
    /\ pc[t] = "obs_hit"
    /\ bucketHits' = [bucketHits EXCEPT ![loc[t].idx] = @ + 1]
    /\ calls' = [calls EXCEPT !.samples = @ + 1]
    /\ pc' = [pc EXCEPT ![t] = "obs_total"]
    /\ UNCHANGED <<bvars, pool, defaultCap, observed, leaks, gets, puts, allocs,
                   calibrations, buckets, smallPool, heap, finalizer, hold, loc>>

\* observeSize testing the count it had before its own Add
ObserveTotalStale(t) ==
    /\ pc[t] = "obs_total"
    /\ observed' = observed + 1
    /\ IF observed % pool.observeEvery # 0
       THEN /\ pc' = [pc EXCEPT ![t] = "put_store"]
            /\ UNCHANGED <<loc, calls>>
       ELSE /\ pc' = [pc EXCEPT ![t] = "recal_swap"]
            /\ loc' = [loc EXCEPT ![t].i = 1, ![t].counts = << >>, ![t].total = 0]
            /\ calls' = [calls EXCEPT !.passes = @ + 1]
    /\ UNCHANGED <<bvars, pool, defaultCap, bucketHits, leaks, gets, puts, allocs,
                   calibrations, buckets, smallPool, heap, finalizer, hold>>

\* observeSize starting a pass whenever the count has reached the interval
ObserveTotalAtLeast(t) ==
    /\ pc[t] = "obs_total"
    /\ observed' = observed + 1
    /\ IF observed' < pool.observeEvery
       THEN /\ pc' = [pc EXCEPT ![t] = "put_store"]
            /\ UNCHANGED <<loc, calls>>
       ELSE /\ pc' = [pc EXCEPT ![t] = "recal_swap"]
            /\ loc' = [loc EXCEPT ![t].i = 1, ![t].counts = << >>, ![t].total = 0]
            /\ calls' = [calls EXCEPT !.passes = @ + 1]
    /\ UNCHANGED <<bvars, pool, defaultCap, bucketHits, leaks, gets, puts, allocs,
                   calibrations, buckets, smallPool, heap, finalizer, hold>>

\* observeSize: total := p.observed.Add(1) and the test of the interval
ObserveTotal(t) ==
    /\ pc[t] = "obs_total"
    /\ observed' = observed + 1
    /\ IF observed' % pool.observeEvery # 0
       THEN /\ pc' = [pc EXCEPT ![t] = "put_store"]
            /\ UNCHANGED <<loc, calls>>
       ELSE /\ pc' = [pc EXCEPT ![t] = "recal_swap"]
            /\ loc' = [loc EXCEPT ![t].i = 1, ![t].counts = << >>, ![t].total = 0]
            /\ calls' = [calls EXCEPT !.passes = @ + 1]
    /\ UNCHANGED <<bvars, pool, defaultCap, bucketHits, leaks, gets, puts, allocs,
                   calibrations, buckets, smallPool, heap, finalizer, hold>>

\* target := int64(float64(total) * p.percentile), total when that is <= 0
recalTarget(total, percentile) ==
    LET target == (total * percentile.num) \div percentile.den
    IN  IF target <= 0 THEN total ELSE target

RECURSIVE SumTo(_, _)
SumTo(counts, i) == IF i = 0 THEN 0 ELSE counts[i] + SumTo(counts, i - 1)

\* the walk over counts stopping at the last class that reaches the target
recalPickLargest(counts, target) ==
    IF \E i \in 1..Len(counts) : SumTo(counts, i) >= target
    THEN Len(counts)
    ELSE 0

\* the class the walk over counts stops at, 0 when the loop ends without one
recalPick(counts, target) ==
    IF \E i \in 1..Len(counts) : SumTo(counts, i) >= target
    THEN CHOOSE i \in 1..Len(counts) :
             /\ SumTo(counts, i) >= target
             /\ \A j \in 1..(i - 1) : SumTo(counts, j) < target
    ELSE 0

\* recalibratePercentile reading the hit counters with Load(), not Swap(0)
RecalSwapLoad(t) ==
    /\ pc[t] = "recal_swap"
    /\ LET i == loc[t].i
           counts == Append(loc[t].counts, bucketHits[i])
           total == loc[t].total + bucketHits[i]
           pick == recalPick(counts, recalTarget(total, pool.percentile))
       IN  /\ bucketHits' = bucketHits
           /\ IF i < Len(bucketHits)
              THEN /\ loc' = [loc EXCEPT ![t].i = i + 1, ![t].counts = counts,
                                        ![t].total = total]
                   /\ UNCHANGED pc
              ELSE IF total <= 0 \/ total < pool.calibrateThr \/ pick = 0
              THEN /\ loc' = [loc EXCEPT ![t].i = 0, ![t].counts = << >>,
                                        ![t].total = 0]
                   /\ pc' = [pc EXCEPT ![t] = "put_store"]
              ELSE /\ loc' = [loc EXCEPT ![t].i = 0, ![t].counts = << >>,
                                        ![t].total = 0, ![t].pick = pick]
                   /\ pc' = [pc EXCEPT ![t] = "recal_store"]
    /\ calls' = [calls EXCEPT !.summed = @ + bucketHits[loc[t].i]]
    /\ UNCHANGED <<bvars, pool, defaultCap, observed, leaks, gets, puts, allocs,
                   calibrations, buckets, smallPool, heap, finalizer, hold>>

\* recalibratePercentile: counts[i] = p.bucketHits[i].Swap(0) for one class; after
\* the last class, the threshold test and the walk over counts
RecalSwap(t) ==
    /\ pc[t] = "recal_swap"
    /\ LET i == loc[t].i
           counts == Append(loc[t].counts, bucketHits[i])
           total == loc[t].total + bucketHits[i]
           pick == recalPick(counts, recalTarget(total, pool.percentile))
       IN  /\ bucketHits' = [bucketHits EXCEPT ![i] = 0]
           /\ IF i < Len(bucketHits)
              THEN /\ loc' = [loc EXCEPT ![t].i = i + 1, ![t].counts = counts,
                                        ![t].total = total]
                   /\ UNCHANGED pc
              ELSE IF total <= 0 \/ total < pool.calibrateThr \/ pick = 0
              THEN /\ loc' = [loc EXCEPT ![t].i = 0, ![t].counts = << >>,
                                        ![t].total = 0]
                   /\ pc' = [pc EXCEPT ![t] = "put_store"]
              ELSE /\ loc' = [loc EXCEPT ![t].i = 0, ![t].counts = << >>,
                                        ![t].total = 0, ![t].pick = pick]
                   /\ pc' = [pc EXCEPT ![t] = "recal_store"]
    /\ calls' = [calls EXCEPT !.summed = @ + bucketHits[loc[t].i]]
    /\ UNCHANGED <<bvars, pool, defaultCap, observed, leaks, gets, puts, allocs,
                   calibrations, buckets, smallPool, heap, finalizer, hold>>

\* recalibratePercentile storing the index of the class, not its bound
RecalStoreIndex(t) ==
    /\ pc[t] = "recal_store"
    /\ defaultCap' = loc[t].pick
    /\ calls' = [calls EXCEPT !.lastCal = 0]
    /\ loc' = [loc EXCEPT ![t].pick = 0]
    /\ pc' = [pc EXCEPT ![t] = "cal_count"]
    /\ UNCHANGED <<bvars, pool, observed, bucketHits, leaks, gets, puts, allocs,
                   calibrations, buckets, smallPool, heap, finalizer, hold>>

\* recalibratePercentile: p.defaultCap.Store(int64(p.sizes[i]))
RecalStore(t) ==
    /\ pc[t] = "recal_store"
    /\ defaultCap' = pool.sizes[loc[t].pick]
    /\ calls' = [calls EXCEPT !.lastCal = 0]
    /\ loc' = [loc EXCEPT ![t].pick = 0]
    /\ pc' = [pc EXCEPT ![t] = "cal_count"]
    /\ UNCHANGED <<bvars, pool, observed, bucketHits, leaks, gets, puts, allocs,
                   calibrations, buckets, smallPool, heap, finalizer, hold>>

\* p.calibrations.Add(1) and, when a callback is configured,
\* p.metrics(p.Stats()), in recalibratePercentile and in Calibrate
CalCount(t) ==
    /\ pc[t] = "cal_count"
    /\ calibrations' = calibrations + 1
    /\ calls' = IF pool.metrics THEN [calls EXCEPT !.metrics = @ + 1] ELSE calls
    /\ pc' = [pc EXCEPT ![t] = IF loc[t].op = "Put" THEN "put_store" ELSE "idle"]
    /\ loc' = [loc EXCEPT ![t] = IF loc[t].op = "Put" THEN loc[t]
                                 ELSE [IdleLoc EXCEPT !.op = loc[t].ret]]
    /\ UNCHANGED <<bvars, pool, defaultCap, observed, bucketHits, leaks, gets, puts, allocs,
                   buckets, smallPool, heap, finalizer, hold>>

\* Put testing cap(b.buf) < p.smallLimit
PutStoreStrict(t) ==
    /\ pc[t] = "put_store"
    /\ LET b == hold[t]
       IN  IF heap[b].cap < pool.smallLimit
           THEN /\ smallPool' = PoolPut(smallPool, b)
                /\ UNCHANGED buckets
           ELSE /\ buckets' = [buckets EXCEPT ![loc[t].idx] = PoolPut(@, b)]
                /\ UNCHANGED smallPool
    /\ hold' = [hold EXCEPT ![t] = None]
    /\ pc' = [pc EXCEPT ![t] = "idle"]
    /\ loc' = [loc EXCEPT ![t] = IdleLoc]
    /\ calls' = [calls EXCEPT !.putsDone = @ + 1]
    /\ UNCHANGED <<bvars, pool, defaultCap, observed, bucketHits, leaks, gets, puts, allocs,
                   calibrations, heap, finalizer>>

\* p.smallPool.Put(b) or p.buckets[idx].Put(b), and the return of Put
PutStore(t) ==
    /\ pc[t] = "put_store"
    /\ LET b == hold[t]
       IN  IF heap[b].cap <= pool.smallLimit
           THEN /\ smallPool' = PoolPut(smallPool, b)
                /\ UNCHANGED buckets
           ELSE /\ buckets' = [buckets EXCEPT ![loc[t].idx] = PoolPut(@, b)]
                /\ UNCHANGED smallPool
    /\ hold' = [hold EXCEPT ![t] = None]
    /\ pc' = [pc EXCEPT ![t] = "idle"]
    /\ loc' = [loc EXCEPT ![t] = IdleLoc]
    /\ calls' = [calls EXCEPT !.putsDone = @ + 1]
    /\ UNCHANGED <<bvars, pool, defaultCap, observed, bucketHits, leaks, gets, puts, allocs,
                   calibrations, heap, finalizer>>

\* --- Calibrate -----------------------------------------------------------
\* Calibrate(obs) up to p.defaultCap.Store
Calibrate(t, obs) ==
    /\ Idle(t) /\ calls.made < MaxCalls
    /\ IF obs <= 0
       THEN UNCHANGED <<defaultCap, pc, loc, calls>>
       ELSE /\ defaultCap' = chooseCap(pool.sizes, obs)
            /\ calls' = [calls EXCEPT !.made = @ + 1, !.calibrates = @ + 1, !.lastCal = obs]
            /\ pc' = [pc EXCEPT ![t] = "cal_count"]
            /\ loc' = [loc EXCEPT ![t] = [IdleLoc EXCEPT !.op = "Calibrate",
                                                          !.ret = loc[t].op]]
    /\ UNCHANGED <<bvars, pool, observed, bucketHits, leaks, gets, puts, allocs,
                   calibrations, buckets, smallPool, heap, finalizer, hold>>

\* --- what a caller does with a Buffer ------------------------------------
\* a caller constructs a Buffer of its own, which it may later Put
ForeignBuffer(t, c) ==
    /\ Idle(t) /\ hold[t] = None /\ calls.made < MaxCalls
    /\ FreeIds # {}
    /\ LET b == SetMin(FreeIds)
       IN  /\ heap' = [heap EXCEPT ![b] = NewBuffer(c)]
           /\ finalizer' = [finalizer EXCEPT ![b] = FALSE]
           /\ hold' = [hold EXCEPT ![t] = b]
    /\ calls' = [calls EXCEPT !.made = @ + 1, !.foreign = @ + 1]
    /\ loc' = [loc EXCEPT ![t] = IdleLoc]
    /\ UNCHANGED <<bvars, pool, defaultCap, observed, bucketHits, leaks, gets, puts, allocs,
                   calibrations, buckets, smallPool, pc>>

\* the caller's checked-out Buffer becomes nb
UseBuffer(t, nb) ==
    /\ Idle(t) /\ hold[t] # None
    /\ nb # heap[hold[t]]
    /\ heap' = [heap EXCEPT ![hold[t]] = nb]
    /\ UNCHANGED <<bvars, pool, defaultCap, observed, bucketHits, leaks, gets, puts, allocs,
                   calibrations, buckets, smallPool, finalizer, hold, pc, loc, calls>>

\* the caller grows its checked-out Buffer: b.Grow(n)
UseGrow(t, n) == UseBuffer(t, Grow(heap[hold[t]], n))

Next ==
    \/ \E t \in Threads : Get(t)
    \/ \E t \in Threads : GetLoad(t)
    \/ \E t \in Threads, n \in SizedArgs : GetSized(t, n)
    \/ \E t \in Threads, n \in SizedArgs : Borrow(t, n)
    \/ \E t \in Threads : getSized(t)
    \/ \E t \in Threads, b \in BufIds \cup {None} : Put(t, b)
    \/ \E t \in Threads : Release(t)
    \/ \E t \in Threads : ObserveHit(t)
    \/ \E t \in Threads : ObserveTotal(t)
    \/ \E t \in Threads : RecalSwap(t)
    \/ \E t \in Threads : RecalStore(t)
    \/ \E t \in Threads : CalCount(t)
    \/ \E t \in Threads : PutStore(t)
    \/ \E t \in Threads, obs \in CalArgs : Calibrate(t, obs)
    \/ \E t \in Threads, c \in ForeignCaps : ForeignBuffer(t, c)
    \/ \E t \in Threads, n \in UseGrowArgs : UseGrow(t, n)

\* --- the life of a Buffer outside the pool calls ---------------------------
UseWriteArgs == {2}             \* len(p) of a Write on a checked-out Buffer
UseReadArgs == {1}              \* len(p) of a Read on a checked-out Buffer

\* the caller writes n bytes into a Buffer that has nothing unread
UseWrite(t, n) ==
    /\ hold[t] # None
    /\ BufLen(heap[hold[t]]) = 0
    /\ UseBuffer(t, Write(heap[hold[t]], Fresh(0, n)))

\* the caller reads up to k bytes
UseRead(t, k) ==
    /\ hold[t] # None
    /\ UseBuffer(t, Read(heap[hold[t]], k).b)

\* the caller forgets its Buffer (and the release function) without Put
Drop(t) ==
    /\ Idle(t) /\ hold[t] # None
    /\ hold' = [hold EXCEPT ![t] = None]
    /\ loc' = [loc EXCEPT ![t] = IdleLoc]
    /\ UNCHANGED <<bvars, pool, defaultCap, observed, bucketHits, leaks, gets, puts, allocs,
                   calibrations, buckets, smallPool, heap, finalizer, pc, calls>>

\* the instances nothing refers to any more
Unreachable == {b \in BufIds : heap[b] # NoBuf /\ b \notin Held /\ b \notin Pooled}

\* the garbage collector reclaims an unreachable instance; its finalizer, if
\* one is set, runs p.leaks.Add(1)
Collect(b) ==
    /\ b \in Unreachable
    /\ leaks' = IF finalizer[b] THEN leaks + 1 ELSE leaks
    /\ heap' = [heap EXCEPT ![b] = NoBuf]
    /\ finalizer' = [finalizer EXCEPT ![b] = FALSE]
    /\ calls' = [calls EXCEPT !.leaked = IF b \in calls.out THEN @ + 1 ELSE @,
                              !.out = @ \ {b}]
    /\ UNCHANGED <<bvars, pool, defaultCap, observed, bucketHits, gets, puts, allocs,
                   calibrations, buckets, smallPool, hold, pc, loc>>

\* a sync.Pool drops a stored instance, as it may at any collection
PoolDrop(b) ==
    /\ b \in Pooled
    /\ smallPool' = smallPool \ {b}
    /\ buckets' = [i \in 1..Len(buckets) |-> buckets[i] \ {b}]
    /\ UNCHANGED <<bvars, pool, defaultCap, observed, bucketHits, leaks, gets, puts, allocs,
                   calibrations, heap, finalizer, hold, pc, loc, calls>>

\* pools with and without leak detection; the observation interval is the
\* default 4096, which no run of the model reaches
LifeOptions ==
    { [BucketSizes |-> <<3, 6>>, InitialCap |-> 0,
       DebugLeakDetection |-> d, ObserveEvery |-> 0, SmallLimit |-> 0,
       Percentile |-> [num |-> 0, den |-> 1], CalibrateThreshold |-> 0,
       Metrics |-> FALSE] : d \in BOOLEAN }

NextLife ==
    \/ \E t \in Threads : Get(t)
    \/ \E t \in Threads : GetLoad(t)
    \/ \E t \in Threads, n \in SizedArgs : GetSized(t, n)
    \/ \E t \in Threads, n \in SizedArgs : Borrow(t, n)
    \/ \E t \in Threads : getSized(t)
    \/ \E t \in Threads, b \in BufIds \cup {None} : Put(t, b)
    \/ \E t \in Threads : Release(t)
    \/ \E t \in Threads : ObserveHit(t)
    \/ \E t \in Threads : ObserveTotal(t)
    \/ \E t \in Threads : PutStore(t)
    \/ \E t \in Threads, n \in UseWriteArgs : UseWrite(t, n)
    \/ \E t \in Threads, k \in UseReadArgs : UseRead(t, k)
    \/ \E t \in Threads : Drop(t)
    \/ \E b \in BufIds : Collect(b)
    \/ \E b \in BufIds : PoolDrop(b)

\* --- one caller on a pool with the default configuration -------------------
MaxWindows == 11                \* observation intervals the caller fills

Solo == {1}                     \* the one caller
KeepArgs == {100}               \* n of its GetSized(n): class 128, the default being 64

\* GetSized(n), for as long as the caller goes on
KeepGetSized(t, n) ==
    /\ Idle(t) /\ hold[t] = None
    /\ observed < MaxWindows * pool.observeEvery
    /\ gets' = gets + 1
    /\ pc' = [pc EXCEPT ![t] = "getSized"]
    /\ loc' = [loc EXCEPT ![t] = [IdleLoc EXCEPT !.op = "GetSized", !.n = n]]
    /\ UNCHANGED <<bvars, pool, defaultCap, observed, bucketHits, leaks, puts, allocs,
                   calibrations, buckets, smallPool, heap, finalizer, hold, calls>>

\* the caller takes a Buffer and returns it, again and again; RecalStore and
\* CalCount are not among the steps: no pass of these runs gets to them
NextDefault ==
    \/ \E t \in Solo, n \in KeepArgs : KeepGetSized(t, n)
    \/ \E t \in Solo : getSized(t)
    \/ \E t \in Solo : Put(t, hold[t])
    \/ \E t \in Solo : ObserveHit(t)
    \/ \E t \in Solo : ObserveTotal(t)
    \/ \E t \in Solo : RecalSwap(t)
    \/ \E t \in Solo : PutStore(t)

\* --- one caller ----------------------------------------------------------------
\* the pools of OptionSet and one with a threshold above the interval whose
\* default capacity Calibrate can move
SoloOptions ==
    OptionSet \cup
    { [BucketSizes |-> <<2, 4, 8>>, InitialCap |-> 0,
       DebugLeakDetection |-> FALSE, ObserveEvery |-> 2, SmallLimit |-> 0,
       Percentile |-> [num |-> 1, den |-> 2], CalibrateThreshold |-> 3,
       Metrics |-> TRUE] }

NextSolo ==
    \/ \E t \in Solo : Get(t)
    \/ \E t \in Solo : GetLoad(t)
    \/ \E t \in Solo, n \in SizedArgs : GetSized(t, n)
    \/ \E t \in Solo, n \in SizedArgs : Borrow(t, n)
    \/ \E t \in Solo : getSized(t)
    \/ \E t \in Solo, b \in BufIds \cup {None} : Put(t, b)
    \/ \E t \in Solo : Release(t)
    \/ \E t \in Solo : ObserveHit(t)
    \/ \E t \in Solo : ObserveTotal(t)
    \/ \E t \in Solo : RecalSwap(t)
    \/ \E t \in Solo : RecalStore(t)
    \/ \E t \in Solo : CalCount(t)
    \/ \E t \in Solo : PutStore(t)
    \/ \E t \in Solo, obs \in CalArgs : Calibrate(t, obs)
    \/ \E t \in Solo, c \in ForeignCaps : ForeignBuffer(t, c)
    \/ \E t \in Solo, n \in UseGrowArgs : UseGrow(t, n)

\* --- the operations of the standalone Buffer ------------------------------
InitBuffer ==
    /\ buf \in {NewBuffer(c) : c \in InitCaps}
    /\ fed = 0
    /\ written = << >>
    /\ readOut = << >>
    /\ tracked = TRUE
    /\ ret = NoRet

BWrite(n) ==
    /\ fed + n <= MaxTotal
    /\ buf' = Write(buf, Fresh(fed, n))
    /\ fed' = fed + n
    /\ written' = written \o Fresh(fed, n)
    /\ UNCHANGED <<readOut, tracked, ret>>
    /\ UNCHANGED pvars

BWriteByte ==
    /\ fed + 1 <= MaxTotal
    /\ buf' = WriteByte(buf, fed + 1)
    /\ fed' = fed + 1
    /\ written' = Append(written, fed + 1)
    /\ UNCHANGED <<readOut, tracked, ret>>
    /\ UNCHANGED pvars

BWriteString(n) ==
    /\ fed + n <= MaxTotal
    /\ buf' = WriteString(buf, Fresh(fed, n))
    /\ fed' = fed + n
    /\ written' = written \o Fresh(fed, n)
    /\ UNCHANGED <<readOut, tracked, ret>>
    /\ UNCHANGED pvars

BRead(k) ==
    LET res == Read(buf, k)
    IN  /\ buf' = res.b
        /\ readOut' = readOut \o res.data
        /\ UNCHANGED <<fed, written, tracked, ret>>
    /\ UNCHANGED pvars

BGrow(n) ==
    /\ buf' = Grow(buf, n)
    /\ UNCHANGED <<fed, written, readOut, tracked, ret>>
    /\ UNCHANGED pvars

\* Reserve(n); the caller then copies n bytes into the slot (fill) or leaves it
BReserve(n, fill) ==
    /\ fed + n <= MaxTotal
    /\ LET m == IF n > 0 THEN n ELSE 0
       IN  /\ buf' = IF fill THEN FillSlot(Reserve(buf, n), m, Fresh(fed, m))
                             ELSE Reserve(buf, n)
           /\ fed' = fed + m
           /\ written' = IF fill THEN written \o Fresh(fed, m) ELSE written
           /\ tracked' = (tracked /\ (fill \/ m = 0))
    /\ UNCHANGED <<readOut, ret>>
    /\ UNCHANGED pvars

BReset ==
    /\ buf' = Reset(buf)
    /\ written' = << >>
    /\ readOut' = << >>
    /\ tracked' = TRUE
    /\ UNCHANGED <<fed, ret>>
    /\ UNCHANGED pvars

BWriteTo(m, werr) ==
    /\ m <= BufLen(buf)
    /\ LET res == WriteTo(buf, m, werr)
       IN  /\ buf' = res.b
           /\ readOut' = IF res.called THEN readOut \o SubSeq(Bytes(buf), 1, m)
                                       ELSE readOut
    /\ UNCHANGED <<fed, written, tracked, ret>>
    /\ UNCHANGED pvars

BReadFrom(script) ==
    /\ fed + ScriptBytes(script) <= MaxTotal
    /\ LET res == ReadFrom(buf, script, fed)
       IN  /\ buf' = res.b
           /\ fed' = fed + res.n
           /\ written' = written \o Fresh(fed, res.n)
    /\ UNCHANGED <<readOut, tracked, ret>>
    /\ UNCHANGED pvars

NextB ==
    \/ \E n \in 0..MaxArg : BWrite(n)
    \/ BWriteByte
    \/ \E n \in 0..MaxArg : BWriteString(n)
    \/ \E k \in 0..MaxArg : BRead(k)
    \/ \E n \in -1..MaxArg : BGrow(n)
    \/ \E n \in -1..MaxArg, fill \in BOOLEAN : BReserve(n, fill)
    \/ BReset
    \/ \E m \in 0..MaxTotal, werr \in {"nil", "ErrSink"} : BWriteTo(m, werr)
    \/ \E script \in Scripts : BReadFrom(script)


\* --- a Buffer that is also given to a pool and drawn again ------------------
RecycleArgs == {-1, 3, 9, 500}  \* n of the GetSized(n) that draws the Buffer again

\* p.Put(b) and a later p.GetSized(n) that is handed the same instance: Put
\* resets it and stores it in the sub-pool of its capacity, getSized draws from
\* the sub-pool of n and grows the instance when n exceeds its capacity
BRecycle(n) ==
    /\ LET m == IF n < 0 THEN 0 ELSE n
           storedSmall == buf.cap <= pool.smallLimit
           drawnSmall == m <= pool.smallLimit
       IN  /\ \/ (storedSmall /\ drawnSmall)
               \/ /\ ~storedSmall
                  /\ ~drawnSmall
                  /\ bucketIndex(pool.sizes, buf.cap) = bucketIndex(pool.sizes, m)
           /\ buf' = Fit(Reset(buf), m)
    /\ buf' # buf
    /\ written' = << >>
    /\ readOut' = << >>
    /\ tracked' = TRUE
    /\ UNCHANGED <<fed, ret>>
    /\ UNCHANGED pvars

NextRecycle ==
    \/ \E n \in 0..MaxArg : BWrite(n)
    \/ BWriteByte
    \/ \E n \in 0..MaxArg : BWriteString(n)
    \/ \E k \in 0..MaxArg : BRead(k)
    \/ \E n \in -1..MaxArg : BGrow(n)
    \/ \E n \in -1..MaxArg, fill \in BOOLEAN : BReserve(n, fill)
    \/ BReset
    \/ \E m \in 0..MaxTotal, werr \in {"nil", "ErrSink"} : BWriteTo(m, werr)
    \/ \E script \in Scripts : BReadFrom(script)
    \/ \E n \in RecycleArgs : BRecycle(n)

\* --- the same operations, with what the call returned kept in ret ---------
\* Write(p), len(p) = n > 0, of the next n bytes of the input
IOWrite(n) ==
    /\ fed + n <= MaxTotal
    /\ buf' = Write(buf, Fresh(fed, n))
    /\ fed' = fed + n
    /\ written' = written \o Fresh(fed, n)
    /\ ret' = NoRet
    /\ UNCHANGED <<readOut, tracked>>
    /\ UNCHANGED pvars

IOWriteByte ==
    /\ fed + 1 <= MaxTotal
    /\ buf' = WriteByte(buf, fed + 1)
    /\ fed' = fed + 1
    /\ written' = Append(written, fed + 1)
    /\ ret' = NoRet
    /\ UNCHANGED <<readOut, tracked>>
    /\ UNCHANGED pvars

\* Read(p), len(p) = k: ret is (n, io.EOF or nil)
IORead(k) ==
    /\ LET res == Read(buf, k)
       IN  /\ buf' = res.b
           /\ readOut' = readOut \o res.data
           /\ ret' = [op |-> "Read", n |-> res.n,
                      err |-> IF res.eof THEN "EOF" ELSE "nil", sink |-> FALSE]
    /\ UNCHANGED <<fed, written, tracked>>
    /\ UNCHANGED pvars

IOGrow(n) ==
    /\ buf' = Grow(buf, n)
    /\ ret' = NoRet
    /\ UNCHANGED <<fed, written, readOut, tracked>>
    /\ UNCHANGED pvars

\* Reserve(n), the caller then copies the next n bytes of the input into the slot
IOReserve(n) ==
    /\ fed + n <= MaxTotal
    /\ buf' = FillSlot(Reserve(buf, n), n, Fresh(fed, n))
    /\ fed' = fed + n
    /\ written' = written \o Fresh(fed, n)
    /\ ret' = NoRet
    /\ UNCHANGED <<readOut, tracked>>
    /\ UNCHANGED pvars

\* WriteTo(w), w.Write(p) returning (m, werr): ret is (n, err) and whether
\* w.Write was called
IOWriteTo(m, werr) ==
    /\ m <= BufLen(buf)
    /\ LET res == WriteTo(buf, m, werr)
       IN  /\ buf' = res.b
           /\ readOut' = IF res.called THEN readOut \o SubSeq(Bytes(buf), 1, m)
                                       ELSE readOut
           /\ ret' = [op |-> "WriteTo", n |-> res.n, err |-> res.err,
                      sink |-> res.called]
    /\ UNCHANGED <<fed, written, tracked>>
    /\ UNCHANGED pvars

\* ReadFrom(r), the calls of r.Read returning what script lists: ret is (n, err)
IOReadFrom(script) ==
    /\ fed + ScriptBytes(script) <= MaxTotal
    /\ LET res == ReadFrom(buf, script, fed)
       IN  /\ buf' = res.b
           /\ fed' = fed + res.n
           /\ written' = written \o Fresh(fed, res.n)
           /\ ret' = [op |-> "ReadFrom", n |-> res.n, err |-> res.err, sink |-> FALSE]
    /\ UNCHANGED <<readOut, tracked>>
    /\ UNCHANGED pvars

NextIO ==
    \/ \E n \in 1..MaxArg : IOWrite(n)
    \/ IOWriteByte
    \/ \E k \in 0..MaxArg : IORead(k)
    \/ \E n \in 1..MaxArg : IOGrow(n)
    \/ \E n \in 1..MaxArg : IOReserve(n)
    \/ \E m \in 0..MaxTotal, werr \in {"nil", "ErrSink"} : IOWriteTo(m, werr)
    \/ \E script \in SourceScripts : IOReadFrom(script)


\* the standalone Buffer of a run of the pool, and the pool of a run of the
\* standalone Buffer, stay as constructed
IdleBuffer ==
    /\ buf = NewBuffer(0)
    /\ fed = 0
    /\ written = << >>
    /\ readOut = << >>
    /\ tracked = TRUE
    /\ ret = NoRet

IdlePool ==
    InitPoolWith([BucketSizes |-> << >>, InitialCap |-> 0,
                  DebugLeakDetection |-> FALSE, ObserveEvery |-> 0, SmallLimit |-> 0,
                  Percentile |-> [num |-> 0, den |-> 1], CalibrateThreshold |-> 0,
                  Metrics |-> FALSE])

Init == IdleBuffer /\ \E opts \in OptionSet : InitPoolWith(opts)

Spec == Init /\ [][Next]_vars

InitB == InitBuffer /\ IdlePool

SpecBuffer == InitB /\ [][NextB]_vars

SpecIO == InitB /\ [][NextIO]_vars

SpecRecycle == InitB /\ [][NextRecycle]_vars

InitDefault == IdleBuffer /\ IdlePool

SpecDefault == InitDefault /\ [][NextDefault]_vars

InitLife == IdleBuffer /\ \E opts \in LifeOptions : InitPoolWith(opts)

SpecLife == InitLife /\ [][NextLife]_vars

InitSolo == IdleBuffer /\ \E opts \in SoloOptions : InitPoolWith(opts)

SpecSolo == InitSolo /\ [][NextSolo]_vars

\* ------------------------------------------------------------------------
\* Properties of the calls of a standalone Buffer and what they return
\* ------------------------------------------------------------------------
Sinks == {"nil", "ErrSink"}

\* everything written has been read
Consumed == Len(readOut) = Len(written)

\* C11: WriteTo on a Buffer with N unread bytes to a sink that accepts m < N
\* bytes without an error returns (m, ErrShortWrite), advances the cursor by m
\* and leaves the other N - m bytes unread, in order; on an empty Buffer it
\* does not call the sink and returns (0, nil)
ShortWriteReported ==
    [][ret'.op = "WriteTo" =>
        \A m \in 0..MaxTotal, werr \in Sinks :
          IOWriteTo(m, werr) =>
              /\ (werr = "nil" /\ m < BufLen(buf)) =>
                    /\ ret' = [op |-> "WriteTo", n |-> m, err |-> "ErrShortWrite",
                               sink |-> TRUE]
                    /\ buf'.r = buf.r + m
                    /\ buf'.len = buf.len
                    /\ Bytes(buf') = SubSeq(Bytes(buf), m + 1, BufLen(buf))
                    /\ readOut' = readOut \o SubSeq(Bytes(buf), 1, m)
              /\ BufLen(buf) = 0 =>
                    /\ ret' = [op |-> "WriteTo", n |-> 0, err |-> "nil", sink |-> FALSE]
                    /\ readOut' = readOut
                    /\ BufLen(buf') = 0]_vars

\* a sink took 2 of the 4 unread bytes 2,3,4,5 and reported no error
ShortWriteWitness ==
    /\ ret = [op |-> "WriteTo", n |-> 2, err |-> "ErrShortWrite", sink |-> TRUE]
    /\ readOut = <<1, 2, 3>>
    /\ Bytes(buf) = <<4, 5>>

\* the writes of n bytes that follow a drain
WriteAfterDrain(n) == IOWrite(n) \/ (n = 1 /\ IOWriteByte) \/ IOReserve(n)

\* C12: once Read or WriteTo has consumed every written byte, Len() is 0; a
\* Read with a non-empty destination then returns (0, EOF) and copies nothing;
\* a write of n bytes then makes the content exactly those n bytes with the
\* cursor at 0, keeping the capacity when n fits in it
DrainThenEOFThenFreshWrite ==
    [][/\ \A k \in 0..MaxArg :
             IORead(k) =>
                 /\ Consumed' => BufLen(buf') = 0
                 /\ (Consumed /\ k > 0) =>
                       /\ ret' = [op |-> "Read", n |-> 0, err |-> "EOF", sink |-> FALSE]
                       /\ readOut' = readOut
                       /\ BufLen(buf') = 0
       /\ ret'.op = "WriteTo" =>
           \A m \in 0..MaxTotal, werr \in Sinks :
             IOWriteTo(m, werr) => (Consumed' => BufLen(buf') = 0)
       /\ \A n \in 1..MaxArg :
             (WriteAfterDrain(n) /\ Consumed) =>
                 /\ Bytes(buf') = Fresh(fed, n)
                 /\ buf'.r = 0
                 /\ buf'.len = n
                 /\ n <= buf.cap => buf'.cap = buf.cap]_vars

\* four bytes were written into capacity 4 and read back to the last one, and
\* the Read after that reported EOF
DrainThenEOFWitness ==
    /\ ret = [op |-> "Read", n |-> 0, err |-> "EOF", sink |-> FALSE]
    /\ written = <<1, 2, 3, 4>>
    /\ readOut = written
    /\ buf.cap = 4

\* index of the first call of the source that reports an error or end-of-data
FirstFailing(script) ==
    CHOOSE i \in 1..Len(script) :
        /\ script[i].err # "nil"
        /\ \A j \in 1..(i - 1) : script[j].err = "nil"

\* the bytes the source has to give up to and including that call
Offered(script) == ScriptBytes(SubSeq(script, 1, FirstFailing(script)))

\* C13: ReadFrom appends what the source delivers to the unread content, in
\* order, and returns the number of bytes delivered: with nil when the source
\* ends with EOF, with the source's error otherwise, the bytes delivered before
\* it kept; it asks the source nothing after the first failing call
ReadFromDeliversAll ==
    [][ret'.op = "ReadFrom" =>
        \A script \in SourceScripts :
          IOReadFrom(script) =>
              LET last == script[FirstFailing(script)]
              IN  /\ ret'.err = (IF last.err = "EOF" THEN "nil" ELSE last.err)
                  /\ ret'.n = BufLen(buf') - BufLen(buf)
                  /\ ret'.n <= Offered(script)
                  /\ (ret'.n = Offered(script)
                         \/ LET room == Collapse(buf).cap - Collapse(buf).len
                            IN  0 < room /\ room < Offered(script))
                  /\ Bytes(buf') = Bytes(buf) \o Fresh(fed, ret'.n)
                  /\ fed' = fed + ret'.n]_vars

\* a source gave 2 bytes and then failed with 1 more: ReadFrom returned
\* (3, ErrSrc) and the 3 bytes follow the unread byte 2
ReadFromWitness ==
    /\ ret = [op |-> "ReadFrom", n |-> 3, err |-> "ErrSrc", sink |-> FALSE]
    /\ Bytes(buf) = <<2, 3, 4, 5>>
    /\ readOut = <<1>>

\* the smallest power of two >= x, x > 0
CeilPowerOfTwo(x) ==
    CHOOSE c \in {Pow2(k) : k \in 0..12} : c >= x /\ (c = 1 \/ c \div 2 < x)

\* what a call that needed n more bytes with the Buffer b left of b
GrowOutcome(b, n, after) ==
    LET unread == BufLen(b)
    IN  /\ (after.cap # b.cap) <=> (unread + n > b.cap)
        /\ (after.cap # b.cap) =>
              /\ after.cap = CeilPowerOfTwo(unread + n)
              /\ after.r = 0
              /\ SubSeq(after.mem, 1, unread) = Bytes(b)

\* C20: a call that needs n > 0 more writable bytes replaces the backing array
\* exactly when unread + n exceeds the capacity; the new capacity is then the
\* smallest power of two >= unread + n, the unread bytes are kept in order and
\* the cursor is 0. ReadFrom needs minRead bytes when the array is full
ReallocOnlyWhenNeeded ==
    [][/\ \A n \in 1..MaxArg :
             (IOWrite(n) \/ IOGrow(n) \/ IOReserve(n)) => GrowOutcome(buf, n, buf')
       /\ IOWriteByte => GrowOutcome(buf, 1, buf')
       /\ ret'.op = "ReadFrom" =>
           \A script \in SourceScripts :
             IOReadFrom(script) =>
                 LET b0 == Collapse(buf)
                     room == b0.cap - b0.len
                     full == [b0 EXCEPT !.len = b0.cap]
                 IN  IF buf'.cap # buf.cap
                     THEN /\ buf'.cap = CeilPowerOfTwo(BufLen(full) + minRead)
                          /\ buf'.r = 0
                          /\ SubSeq(buf'.mem, 1, BufLen(b0)) = Bytes(b0)
                          /\ ret'.n >= room
                     ELSE buf'.len - b0.len <= room]_vars

\* capacity 4 held 1,2,3,4; byte 1 was read and Grow(2) moved the unread 2,3,4
\* to an array of capacity 8
ReallocWitness ==
    buf = [mem |-> <<2, 3, 4>>, len |-> 3, cap |-> 8, r |-> 0]

\* ------------------------------------------------------------------------
\* Properties of the BufferPool
\* ------------------------------------------------------------------------
Classes == 1..Len(pool.sizes)

Last == Len(pool.sizes)

AllIdle == \A t \in Threads : Idle(t)

\* callers inside Get / GetSized / Borrow, and callers inside Put
InGet == {t \in Threads : pc[t] \in {"get_load", "getSized"}}

InPut == {t \in Threads : pc[t] # "idle" /\ loc[t].op = "Put"}

\* C1: no Buffer is checked out by two callers at once, and no sub-pool stores
\* a Buffer that a caller still has checked out
NoSharedBuffer ==
    /\ \A t1, t2 \in Threads : (t1 # t2 /\ hold[t1] # None) => hold[t1] # hold[t2]
    /\ Held \cap Pooled = {}

\* one caller holds a recycled Buffer while the other is about to store its own
NoSharedBufferWitness ==
    \E t1, t2 \in Threads :
        /\ t1 # t2
        /\ pc[t2] = "put_store"
        /\ Idle(t1) /\ hold[t1] # None
        /\ allocs = 1
        /\ calls.getsDone = 2

\* C2: GetSized(n) and Borrow(n) with n >= 0 return a Buffer of capacity >= n
GetSizedCapacity ==
    [][\A t \in Threads :
          (getSized(t) /\ loc[t].op \in {"GetSized", "Borrow"} /\ loc[t].n >= 0)
              => heap'[hold'[t]].cap >= loc[t].n]_vars

\* a request above the largest class was served (only getSized(9) makes
\* capacity 16) after a Buffer had been returned
GetSizedCapacityWitness ==
    /\ calls.putsDone >= 1
    /\ \E t \in Threads : Idle(t) /\ hold[t] # None /\ heap[hold[t]].cap = 16

\* C6: gets counts the Get, GetSized and Borrow calls and puts counts the Put
\* calls with a non-nil Buffer: each counter is the number of finished calls
\* plus the calls in progress, so they agree once every caller has finished
CountersExact ==
    /\ gets = calls.getsDone + Cardinality(InGet)
    /\ puts = calls.putsDone + Cardinality(InPut)

\* both callers have finished a Get/Put cycle
CountersExactWitness ==
    /\ AllIdle
    /\ gets = 2 /\ puts = 2
    /\ calls.foreign = 0

\* C7: the default capacity is an entry of the size-class table
DefaultCapInTable == defaultCap \in Range(pool.sizes)

\* a Put-triggered recalibration is about to store while the last store was
\* that of Calibrate(9), above every class
DefaultCapInTableWitness ==
    /\ calls.lastCal = 9
    /\ \E t \in Threads : pc[t] = "recal_store"

\* C8 as stated: every Buffer stored in the sub-pool of class i has capacity
\* <= sizes[i], the largest class included
BucketCapBoundAll ==
    \A i \in Classes : \A b \in buckets[i] : heap[b].cap <= pool.sizes[i]

\* C8: every Buffer stored in the sub-pool of a class i other than the largest
\* has capacity <= sizes[i]
BucketCapBound ==
    \A i \in Classes : i # Last => \A b \in buckets[i] : heap[b].cap <= pool.sizes[i]

\* a Buffer sits in a class below the largest while the largest class stores
\* one grown above every class
BucketCapBoundWitness ==
    /\ \E i \in Classes : i # Last /\ buckets[i] # {}
    /\ \E b \in buckets[Last] : heap[b].cap > pool.sizes[Last]

\* the classes with bound >= c
ClassesFrom(c) == {i \in Classes : pool.sizes[i] >= c}

\* b is stored in the small sub-pool and nowhere else
InSmallOnly(b) == b \in smallPool' /\ \A j \in Classes : b \notin buckets'[j]

\* b is stored in the sub-pool of class i and nowhere else
InClassOnly(b, i) ==
    /\ b \in buckets'[i]
    /\ b \notin smallPool'
    /\ \A j \in Classes : j # i => b \notin buckets'[j]

\* C9 as stated: Put stores a Buffer of capacity c in the small sub-pool when
\* c <= small-object limit, otherwise in the sub-pool of the smallest class >= c
PutRoutesToCeilingClass ==
    [][\A t \in Threads :
          PutStore(t) =>
              LET b == hold[t]
                  c == heap[b].cap
              IN  IF c <= pool.smallLimit THEN InSmallOnly(b)
                  ELSE /\ ClassesFrom(c) # {}
                       /\ InClassOnly(b, SetMin(ClassesFrom(c)))]_vars

\* C9: Put stores a Buffer of capacity c in the small sub-pool when
\* c <= small-object limit, otherwise in the sub-pool of the smallest class
\* >= c, or of the largest class when c exceeds every class
PutRoutesByCapacity ==
    [][\A t \in Threads :
          PutStore(t) =>
              LET b == hold[t]
                  c == heap[b].cap
              IN  IF c <= pool.smallLimit THEN InSmallOnly(b)
                  ELSE IF ClassesFrom(c) # {}
                       THEN InClassOnly(b, SetMin(ClassesFrom(c)))
                       ELSE InClassOnly(b, Last)]_vars

\* classes 2,4,8 and no Calibrate, no caller-made Buffer: a Buffer of capacity
\* 8 in the sub-pool of class 8 was drawn from a lower class and grown
PutRoutesWitness ==
    /\ pool.sizes = <<2, 4, 8>>
    /\ calls.calibrates = 0
    /\ calls.foreign = 0
    /\ \E b \in buckets[3] : heap[b].cap = 8

\* the bound Calibrate(obs) selects: the smallest class >= obs, the largest
\* class when obs exceeds every class
CeilingOrLargest(obs) ==
    IF ClassesFrom(obs) # {} THEN pool.sizes[SetMin(ClassesFrom(obs))]
    ELSE pool.sizes[Last]

\* C10 as stated: after Calibrate(obs), obs > 0, the default capacity is the
\* smallest class >= obs, and the next Get() returns a Buffer of exactly that
\* capacity
CalibrateThenGetExact ==
    [][\A t \in Threads :
          /\ \A obs \in CalArgs :
                (Calibrate(t, obs) /\ obs > 0)
                    => /\ ClassesFrom(obs) # {}
                       /\ defaultCap' = pool.sizes[SetMin(ClassesFrom(obs))]
          /\ (getSized(t) /\ loc[t].op = "Get" /\ loc[t].cal > 0)
                => /\ ClassesFrom(loc[t].cal) # {}
                   /\ loc[t].n = pool.sizes[SetMin(ClassesFrom(loc[t].cal))]
                   /\ heap'[hold'[t]].cap = loc[t].n]_vars

\* C10: after Calibrate(obs), obs > 0, the default capacity is the smallest
\* class >= obs (the largest class when obs exceeds every class), and a Get()
\* that reads it returns a Buffer of at least that capacity, of exactly that
\* capacity when a class sub-pool constructs the Buffer
CalibrateThenGet ==
    [][\A t \in Threads :
          /\ \A obs \in CalArgs :
                (Calibrate(t, obs) /\ obs > 0) => defaultCap' = CeilingOrLargest(obs)
          /\ (getSized(t) /\ loc[t].op = "Get" /\ loc[t].cal > 0)
                => /\ loc[t].n = CeilingOrLargest(loc[t].cal)
                   /\ heap'[hold'[t]].cap >= loc[t].n
                   /\ (allocs' # allocs /\ loc[t].n > pool.smallLimit)
                         => heap'[hold'[t]].cap = loc[t].n]_vars

\* classes 3,6, small-object limit 4, initial default 3: only a Get() after
\* Calibrate(9) hands out a Buffer of capacity 6
CalibrateThenGetWitness ==
    /\ pool.sizes = <<3, 6>>
    /\ calls.lastCal = 9
    /\ calibrations = 1
    /\ calls.foreign = 0
    /\ \E t \in Threads : Idle(t) /\ hold[t] # None /\ heap[hold[t]].cap = 6

\* --- the recalibration passes ---------------------------------------------
\* what the pass of caller t, reading its last class, has read in all
PassCounts(t) == Append(loc[t].counts, bucketHits[Last])

PassTotal(t) == SumTo(PassCounts(t), Last)

\* floor(total * percentile), total when that is 0
PassTarget(total) ==
    LET product == (total * pool.percentile.num) \div pool.percentile.den
    IN  IF product = 0 THEN total ELSE product

\* the classes at which the cumulative count first reaches target
FirstReaching(counts, target) ==
    {i \in Classes : /\ SumTo(counts, i) >= target
                     /\ \A j \in 1..(i - 1) : SumTo(counts, j) < target}

\* the pass of caller t ends with this step and its total passes the threshold
PassSucceeds(t) ==
    /\ RecalSwap(t)
    /\ loc[t].i = Last
    /\ PassTotal(t) > 0
    /\ PassTotal(t) >= pool.calibrateThr

\* the pass of caller t ends with this step and its total is 0 or below the
\* threshold
PassAborts(t) ==
    /\ RecalSwap(t)
    /\ loc[t].i = Last
    /\ (PassTotal(t) = 0 \/ PassTotal(t) < pool.calibrateThr)

\* C17: a pass whose total is positive and at least the threshold finds a
\* first class whose cumulative count reaches the target, stores the bound of
\* that class as the default capacity, adds one to calibrations and runs the
\* metrics callback once if there is one
PassAboveThresholdCalibrates ==
    [][\A t \in Threads :
          /\ PassSucceeds(t) =>
                /\ FirstReaching(PassCounts(t), PassTarget(PassTotal(t))) # {}
                /\ pc'[t] = "recal_store"
                /\ {loc'[t].pick} = FirstReaching(PassCounts(t), PassTarget(PassTotal(t)))
          /\ RecalStore(t) =>
                /\ defaultCap' = pool.sizes[loc[t].pick]
                /\ pc'[t] = "cal_count"
                /\ loc'[t].op = "Put"
          /\ (CalCount(t) /\ loc[t].op = "Put") =>
                /\ calibrations' = calibrations + 1
                /\ calls'.metrics = calls.metrics + (IF pool.metrics THEN 1 ELSE 0)
                /\ pc'[t] = "put_store"]_vars

\* threshold 2, percentile 1/3: a pass read 2 samples (target 2, the product
\* being 0), calibrated and ran the callback; no Calibrate call was made
PassCalibratesWitness ==
    /\ pool.calibrateThr = 2
    /\ pool.percentile = [num |-> 1, den |-> 3]
    /\ AllIdle
    /\ calibrations = 1
    /\ calls.calibrates = 0
    /\ calls.metrics = 1
    /\ calls.passes = 2

\* C18: a pass whose total is 0 or below the threshold leaves the default
\* capacity and calibrations as they are and runs no callback, and every hit
\* counter the pass read was set to zero by the read: the pass keeps nothing
\* of what it read
PassBelowThresholdDiscards ==
    [][\A t \in Threads :
          /\ RecalSwap(t) => bucketHits' = [bucketHits EXCEPT ![loc[t].i] = 0]
          /\ PassAborts(t) =>
                /\ pc'[t] = "put_store"
                /\ loc'[t].counts = << >>
                /\ loc'[t].total = 0
                /\ defaultCap' = defaultCap
                /\ calibrations' = calibrations
                /\ calls'.metrics = calls.metrics]_vars

\* threshold 2, interval 1: the one Put made so far ran a pass over its single
\* sample; nothing was calibrated and the hit counters are zero again
PassDiscardsWitness ==
    /\ pool.calibrateThr = 2
    /\ pool.observeEvery = 1
    /\ AllIdle
    /\ calls.putsDone = 1
    /\ observed = 1
    /\ calls.passes = 1
    /\ calibrations = 0
    /\ \A i \in Classes : bucketHits[i] = 0

\* C19: the passes started are one for each multiple of the observation
\* interval the running sample count has reached
PassPerMultiple == calls.passes = observed \div pool.observeEvery

\* interval 1: both callers are inside the pass their own sample started
PassPerMultipleWitness ==
    /\ observed = 2
    /\ calls.passes = 2
    /\ \A t \in Threads : pc[t] = "recal_swap"

\* C22: whatever the interleaving of Puts and passes, what the passes have read
\* from the hit counters plus what the hit counters hold is the number of
\* samples recorded: the read-and-zero step loses no sample and no sample is
\* read twice
SamplesConserved ==
    calls.summed + SumTo(bucketHits, Len(bucketHits)) = calls.samples

\* a pass has read one sample from a class and moved on; the other caller then
\* recorded a sample in that class, which waits there for a later pass
SamplesConservedWitness ==
    /\ calls.samples = 2
    /\ calls.summed = 1
    /\ \E t \in Threads :
          /\ pc[t] = "recal_swap"
          /\ loc[t].total = 1
          /\ \E i \in 1..(loc[t].i - 1) : bucketHits[i] = 1

\* --- the sample a Put records ------------------------------------------------
\* the class of a capacity c: the smallest class >= c, the largest if none
ClassOfCap(c) == IF ClassesFrom(c) # {} THEN SetMin(ClassesFrom(c)) ELSE Last

\* the step of caller t that records its sample adds one to the hit counter
\* of the class of the Buffer's capacity and to no other, and the step after
\* it adds one to the running sample count; nothing else adds to either
SampleInClass(t) ==
    /\ ObserveHit(t) =>
          /\ bucketHits' = [bucketHits EXCEPT ![ClassOfCap(heap[hold[t]].cap)] = @ + 1]
          /\ observed' = observed
    /\ ObserveTotal(t) =>
          /\ observed' = observed + 1
          /\ bucketHits' = bucketHits
    /\ observed' # observed => ObserveTotal(t)
    /\ (\E i \in Classes : bucketHits'[i] > bucketHits[i]) => ObserveHit(t)

\* C21 as stated: every Put of a non-nil Buffer, of any capacity, records
\* exactly one sample, in the class of the Buffer's capacity: when a Put of
\* the one caller returns, the samples recorded and the running sample count
\* are the number of Puts that have returned
EveryPutSamples ==
    [][\A t \in Solo :
          /\ SampleInClass(t)
          /\ PutStore(t) =>
                /\ calls.samples = calls'.putsDone
                /\ observed = calls'.putsDone]_vars

\* C21: every Put of a non-nil Buffer of capacity > 0 records exactly one
\* sample, in the class of the Buffer's capacity, whether the Buffer goes to
\* the small sub-pool or to a class; a Put of a Buffer of capacity 0 records
\* none and stores the Buffer in the small sub-pool
PutSamplesByCapacity ==
    [][\A t \in Solo :
          /\ SampleInClass(t)
          /\ PutStore(t) =>
                /\ calls.samples = calls.sized
                /\ observed = calls.sized
                /\ heap[hold[t]].cap = 0 =>
                      /\ calls.sized < calls'.putsDone
                      /\ hold[t] \in smallPool']_vars

\* the caller returned a Buffer to a class, which recorded a sample, and a
\* Buffer of capacity 0 of its own, which recorded none
PutSamplesWitness ==
    /\ AllIdle
    /\ calls.putsDone = 2
    /\ calls.samples = 1
    /\ observed = 1
    /\ \E b \in smallPool : heap[b].cap = 0
    /\ \E i \in Classes : \E b \in buckets[i] : heap[b].cap > 0

LeakCountExact ==
    IF pool.debugLeaks THEN leaks = calls.leaked ELSE leaks = 0

\* leak detection on: one Buffer was handed out, dropped and reclaimed, and
\* another was returned by Put, dropped by the pool and reclaimed
LeakCountWitness ==
    /\ pool.debugLeaks
    /\ leaks = 1
    /\ calls.putsDone = 1
    /\ calls.getsDone = 2
    /\ calls.foreign = 0
    /\ \A b \in BufIds : heap[b] = NoBuf

\* C15: the Buffer that Get, GetSized or Borrow returns is empty: nothing
\* unread, cursor 0
HandedOutEmpty ==
    [][\A t \in Threads :
          getSized(t) =>
              /\ hold'[t] # None
              /\ Bytes(heap'[hold'[t]]) = << >>
              /\ BufLen(heap'[hold'[t]]) = 0
              /\ heap'[hold'[t]].r = 0]_vars

\* a caller is handed the one Buffer the pool constructed, for the second
\* time: its array still holds the 2 bytes written during the first checkout
HandedOutEmptyWitness ==
    /\ allocs = 1
    /\ calls.foreign = 0
    /\ calls.getsDone = 2
    /\ calls.putsDone = 1
    /\ calls.made = 2
    /\ \E t \in Threads :
          /\ Idle(t) /\ hold[t] # None
          /\ heap[hold[t]].mem = <<1, 2>>
          /\ heap[hold[t]].len = 0

\* --- automatic calibration with the default configuration -----------------
\* C16: with the defaults (interval 4096, threshold 42000, percentile 0.95) a
\* caller that keeps returning Buffers of a class other than the default one
\* gets the default capacity tuned by Put alone: once MaxWindows intervals
\* have been filled (more samples than the threshold) and the Put that filled
\* the last one has returned, calibrations is positive and the default
\* capacity is the class returned
AutoCalibrationTunes ==
    (AllIdle /\ observed >= MaxWindows * pool.observeEvery)
        => (calibrations > 0 /\ defaultCap = 128)

\* ------------------------------------------------------------------------
\* Properties of the standalone Buffer
\* ------------------------------------------------------------------------

\* C3: in every reachable state of a Buffer, 0 <= read cursor <= write length
\* <= capacity
CursorLenCapOrdered ==
    /\ 0 <= buf.r
    /\ buf.r <= buf.len
    /\ buf.len <= buf.cap

\* a buffer that was reallocated, partly read and written again
CursorLenCapWitness ==
    /\ buf.cap = 8
    /\ buf.r > 0
    /\ buf.r < buf.len
    /\ buf.len = 5

\* C4: the Buffer is a FIFO byte queue: the bytes read so far are a prefix of
\* the bytes written so far, and the unread content is exactly the rest of
\* them, in order
IsPrefix(s, t) == Len(s) <= Len(t) /\ s = SubSeq(t, 1, Len(s))

RoundTripFIFO ==
    tracked =>
        /\ IsPrefix(readOut, written)
        /\ Bytes(buf) = SubSeq(written, Len(readOut) + 1, Len(written))

\* writes, a partial read, a reallocation and more writes, all bytes accounted for
RoundTripWitness ==
    /\ tracked
    /\ Len(written) = 5
    /\ Len(readOut) = 2
    /\ buf.cap = 8
    /\ Bytes(buf) = <<3, 4, 5>>

\* C5: once a prefix has been consumed, a write of n bytes with
\* unread + n <= capacity keeps the capacity and makes the unread content the
\* previous unread bytes followed by the new bytes
WriteOf(n) == BWrite(n) \/ BWriteString(n) \/ (n = 1 /\ BWriteByte)

CompactionKeepsCapacity ==
    [][\A n \in 0..MaxArg :
          (WriteOf(n) /\ buf.r > 0 /\ BufLen(buf) + n <= buf.cap)
              => /\ buf'.cap = buf.cap
                 /\ Bytes(buf') = Bytes(buf) \o Fresh(fed, n)]_vars

\* capacity 4, bytes 1..4 written, 2 read, byte 5 written: the unread bytes
\* 3,4 were moved to the front of the same array and 5 appended
CompactionWitness ==
    buf = [mem |-> <<3, 4, 5, 4>>, len |-> 3, cap |-> 4, r |-> 0]

\* C25: between the calls of a Buffer the cursor is either below the length, or
\* the cursor and the length are both 0: the call of Read or WriteTo that
\* consumes the last unread byte leaves the Buffer empty, never drained
NeverDrained ==
    \/ buf.r < buf.len
    \/ (buf.r = 0 /\ buf.len = 0)

\* three bytes were written into capacity 4 and all three consumed: length and
\* cursor are back at 0 and the array is kept
NeverDrainedWitness ==
    /\ written = <<1, 2, 3>>
    /\ readOut = written
    /\ buf.len = 0
    /\ buf.r = 0
    /\ buf.cap = 4

\* C24: the capacity of a Buffer never goes down, whatever is called on it:
\* Write, WriteByte, WriteString, Reserve, Grow, Read, WriteTo, ReadFrom, Reset,
\* or a Put and a later Get that hands out the same instance
CapacityNeverDecreases == [][buf'.cap >= buf.cap]_vars

\* a Buffer of capacity 8 that had been written and read was given to the pool
\* and drawn again by GetSized(9), which grew it to 16
CapacityWitness ==
    /\ buf.cap = 16
    /\ buf.len = 0
    /\ fed = 5
    /\ written = << >>

====
